---- MODULE Spec2Model ----
(***************************************************************************)
(* Points ledger and multi-model generation fan-out of ai-painter.         *)
(*                                                                         *)
(* backend/services/generation_service.py : GenerationService              *)
(* backend/services/user_service.py       : UserService                    *)
(* backend/routers/users.py               : the user-update endpoints      *)
(*                                                                         *)
(* The application is served by several uvicorn worker processes           *)
(* (run.py, workers=4) and runs its synchronous endpoints on a thread      *)
(* pool, every request with a database session of its own.  A step of the  *)
(* model is therefore one stretch of a request between two database        *)
(* round trips or awaits: a SELECT and the later UPDATE/COMMIT of the same *)
(* request are different steps, and requests interleave between them.      *)
(***************************************************************************)
EXTENDS Integers, Sequences, FiniteSets, TLC

\* ------------------------------------------------------------------ bounds
MaxModels == 2          \* longest request.models list
MaxPoints == 2          \* largest initial balance of the account
MaxCredit == 1          \* largest redemption code value and add_points amount
MaxRows == 3            \* most rows the generations table holds
MaxData == 2            \* most items in the data list of a provider response

\* ------------------------------------------------------------- value sets
Null == "null"                          \* Python None / SQL NULL

Users == {"u1"}
Batches == {"b1", "b2"}                 \* concurrent generate_image calls
Callers == {"c1", "c2"}                 \* concurrent ledger callers
Registrants == {"r1", "r2"}             \* concurrent POST /auth/register calls

Prompts == {"cat", "dog"}
ModelIds == <<"m1", "m2", "m3", "m4">>

\* request.models: the first K model identifiers, K = 1..MaxModels
ModelLists == {SubSeq(ModelIds, 1, k) : k \in 1..MaxModels}

\* ---------------------------------------------------- optimizer (pure part)
\* str.strip() on the texts the optimizer may answer with
Strip(s) ==
    CASE s = " "     -> ""
      [] s = " cat " -> "cat"
      [] s = " dog " -> "dog"
      [] OTHER       -> s

Contents == {"", " ", "cat", " cat ", "dog"}

\* What the chat-completion endpoint can answer: a raised transport error or
\* timeout, a non-200 status, or 200 with a body.
OptimizerResponses ==
    {[kind |-> "raise", status_code |-> 0, choices |-> <<>>]}
    \cup {[kind |-> "http", status_code |-> 500, choices |-> <<>>]}
    \cup {[kind |-> "http", status_code |-> 200, choices |-> <<>>]}
    \cup {[kind |-> "http", status_code |-> 200, choices |-> <<c>>] :
              c \in Contents \cup {Null}}

\* the optimizer was not asked
NoAnswer == [kind |-> "none", status_code |-> 0, choices |-> <<>>]

\* optimize_prompt handing back whatever it got, without the fallback to the
\* original prompt
OptimizePromptNoFallback(prompt, resp) ==
    IF resp.kind = "raise" THEN prompt
    ELSE IF resp.status_code = 200
         THEN IF resp.choices = <<>> THEN prompt
              ELSE IF resp.choices[1] = Null THEN prompt
              ELSE Strip(resp.choices[1])
         ELSE ""

\* optimize_prompt after its request was sent: the value it returns
OptimizePromptResult(prompt, resp) ==
    IF resp.kind = "raise" THEN prompt                      \* except Exception
    ELSE IF resp.status_code = 200
         THEN IF resp.choices = <<>> THEN prompt            \* IndexError
              ELSE IF resp.choices[1] = Null THEN prompt    \* AttributeError
              ELSE LET optimized == Strip(resp.choices[1])
                   IN  IF optimized # "" THEN optimized ELSE prompt
         ELSE prompt

\* ------------------------------------------------ image provider (pure part)
ImageFields == {"b64_json", "url", "image_url"}

FieldValue(f) ==
    CASE f = "b64_json"  -> "B64"
      [] f = "url"       -> "URL"
      [] f = "image_url" -> "ALIAS"

\* a data item: the fields it carries, each with its value or JSON null
Items ==
    UNION {{i \in [S -> {"B64", "URL", "ALIAS", Null}] :
               \A f \in S : i[f] \in {FieldValue(f), Null}} :
           S \in SUBSET ImageFields}

\* dict.get(key) with default None
Get(d, key) == IF key \in DOMAIN d THEN d[key] ELSE Null

\* None, and the empty dict: both are falsy where the code tests the result
NoDict == [f \in {} |-> Null]

\* an extraction that prefers the URL field
ExtractUrlFirst(data) ==
    IF data = <<>> THEN NoDict
    ELSE LET item == data[1]
         IN  IF "url" \in DOMAIN item THEN [url |-> item["url"]]
             ELSE IF "b64_json" \in DOMAIN item THEN [b64_json |-> item["b64_json"]]
             ELSE IF "image_url" \in DOMAIN item THEN [url |-> item["image_url"]]
             ELSE NoDict

\* _extract_image_data
ExtractImageData(data) ==
    IF data = <<>> THEN NoDict
    ELSE LET item == data[1]
         IN  IF "b64_json" \in DOMAIN item THEN [b64_json |-> item["b64_json"]]
             ELSE IF "url" \in DOMAIN item THEN [url |-> item["url"]]
             ELSE IF "image_url" \in DOMAIN item THEN [url |-> item["image_url"]]
             ELSE NoDict

\* What the image endpoint can answer
ProviderResponses ==
    {[kind |-> "raise", status_code |-> 0, data |-> <<>>, message |-> Null]}
    \cup {[kind |-> "http", status_code |-> 500, data |-> <<>>, message |-> m] :
              m \in {Null, "quota exceeded"}}
    \cup {[kind |-> "http", status_code |-> 200, data |-> d, message |-> Null] :
              d \in {<<>>} \cup {<<i>> : i \in Items}}

\* _call_ai_api: the dict it returns
CallAiApi(resp) ==
    IF resp.kind = "raise"
    THEN [success |-> FALSE, image_url |-> Null, base64_image |-> Null,
          error |-> "API call error"]
    ELSE IF resp.status_code = 200
    THEN LET image_data == ExtractImageData(resp.data)
         IN  IF DOMAIN image_data # {}
             THEN [success |-> TRUE, image_url |-> Get(image_data, "url"),
                   base64_image |-> Get(image_data, "b64_json"), error |-> Null]
             ELSE [success |-> FALSE, image_url |-> Null, base64_image |-> Null,
                   error |-> "No image data in response"]
    ELSE [success |-> FALSE, image_url |-> Null, base64_image |-> Null,
          error |-> IF resp.message # Null
                    THEN "API call failed: provider message"
                    ELSE "API call failed: response text"]


\* ------------------------------------------------------------------- state
VARIABLES
    points,            \* users.points, the stored balance of each account
    points_null,       \* users.points IS NULL (points then stands at 0)
    initial_points,    \* the balance each account started with
    api_configs,       \* the rows of api_configs, in table order
    code_used,         \* redemption_codes.is_used of the one code
    code_points,       \* redemption_codes.points of the one code
    pc,                \* where each generate_image call stands
    owner,             \* user_id of each call
    request,           \* the GenerationRequest of each call
    optimizer_answer,  \* what the optimizer answered to the call, if it was asked
    optimized_prompt,  \* local optimized_prompt of each call
    generations,       \* local list generations: the Generation objects of the call
    provider_calls,    \* the image requests the call has issued, with their outcome
    user_points,       \* user.points as loaded into the call's session by deduct_points
    debit_calls,       \* how often deduct_points has committed for the call
    charged,           \* the points those commits took off the balance they had read
    response,          \* what the call returned, or the error it raised
    cpc,               \* where each ledger caller stands
    cuser,             \* the account the caller works on
    cread,             \* user.points as loaded into the caller's session
    camount,           \* the amount the caller is about to credit
    credited,          \* the points the caller's committed credits added
    generation_rows,   \* the generations table of all users: id -> user_id
    removal,           \* the last delete or clear call and what it returned
    extraction,        \* a provider response body and what was extracted from it
    user_rows,         \* the users table: username and invite_code of each row
    invite_codes,      \* the invite_codes table: code -> is_used, expired
    rpc,               \* where each create_user call stands
    rdata              \* the UserCreate body of each create_user call

batchVars == <<pc, owner, request, optimizer_answer, optimized_prompt, generations, provider_calls,
               user_points, debit_calls, charged, response>>
callerVars == <<cpc, cuser, cread, camount, credited>>
mainVars == <<points, points_null, initial_points, api_configs, code_used, code_points,
              batchVars, callerVars>>
historyVars == <<generation_rows, removal>>
registerVars == <<user_rows, invite_codes, rpc, rdata>>
sideVars == <<historyVars, extraction, registerVars>>
storeVars == <<points, points_null, initial_points, api_configs, code_used, code_points,
               sideVars>>
vars == <<storeVars, batchVars, callerVars>>

\* Python truthiness of an Optional[str]
Truthy(x) == x # Null /\ x # ""

\* a or b
Or(a, b) == IF Truthy(a) THEN a ELSE b

\* GenerationService.default_api_key: os.getenv("AI_API_KEY", "")
default_api_key == ""

\* ApiConfig rows; api_base_url only travels to the providers and is left out
ApiConfigs ==
    [config_key : {"default"}, api_key : {"", "key"},
     optimizer_model : {Null, "gpt-4o-mini"}, system_prompt : {Null, "sys"},
     is_active : BOOLEAN]

\* UserService.get_active_api_config: the active rows, of which the caller
\* takes the first (<<>> when there is none)
GetActiveApiConfig(rows) == SelectSeq(rows, LAMBDA r : r.is_active)

\* GenerationRequest; size, output_format and image_file only travel to the
\* provider and are left out
Requests ==
    [prompt : Prompts, enable_optimization : BOOLEAN, models : ModelLists,
     optimizer_model : {Null, "req-model"}, system_prompt : {Null, "req-sys"}]

\* the fields of the request the call still reads after line 96
Kept(req) == [prompt |-> req.prompt,
              enable_optimization |-> req.enable_optimization,
              models |-> req.models]

\* what a call hands back: the HTTP status and, with 200, the records
NoResponse == [status |-> 0, records |-> <<>>]

\* a rejection that reports the insufficient-balance status whatever the cause
RejectedAs400(code) == [status |-> 400, records |-> <<>>]

Rejected(code) == [status |-> code, records |-> <<>>]

\* a return that withholds the rows that failed
ReturnedCompleted(gens) ==
    [status |-> 200,
     records |-> SelectSeq(gens, LAMBDA g : g.status = "completed")]

Returned(gens) == [status |-> 200, records |-> gens]

NoRequest == [prompt |-> Null, enable_optimization |-> FALSE, models |-> <<>>]

\* an empty generations table; no delete or clear call yet
NoRows == [id \in {} |-> Null]

\* no UserCreate body
NoUserData == [username |-> Null, invite_code |-> Null]

\* no provider response yet
NoExtraction == [state |-> "idle", data |-> <<>>, image_data |-> NoDict]

NoRemoval == [caller |-> Null, kind |-> Null, ids |-> {}, result |-> FALSE]

\* the state before any request, with the active configuration drawn from cfgs
InitWith(cfgs) ==
    /\ points \in [Users -> 0..MaxPoints]
    /\ points_null = [u \in Users |-> FALSE]
    /\ initial_points = points
    /\ api_configs \in {<<>>} \cup {<<cfg>> : cfg \in cfgs}
    /\ code_used = FALSE
    /\ code_points \in 1..MaxCredit
    /\ pc = [b \in Batches |-> "idle"]
    /\ owner = [b \in Batches |-> Null]
    /\ request = [b \in Batches |-> NoRequest]
    /\ optimizer_answer = [b \in Batches |-> NoAnswer]
    /\ optimized_prompt = [b \in Batches |-> ""]
    /\ generations = [b \in Batches |-> <<>>]
    /\ provider_calls = [b \in Batches |-> <<>>]
    /\ user_points = [b \in Batches |-> 0]
    /\ debit_calls = [b \in Batches |-> 0]
    /\ charged = [b \in Batches |-> 0]
    /\ response = [b \in Batches |-> NoResponse]
    /\ cpc = [c \in Callers |-> "idle"]
    /\ cuser = [c \in Callers |-> Null]
    /\ cread = [c \in Callers |-> 0]
    /\ camount = [c \in Callers |-> 0]
    /\ credited = [c \in Callers |-> 0]
    /\ generation_rows = NoRows
    /\ removal = NoRemoval
    /\ extraction = NoExtraction
    /\ user_rows = {}
    /\ invite_codes = NoRows
    /\ rpc = [r \in Registrants |-> "idle"]
    /\ rdata = [r \in Registrants |-> NoUserData]

\* --------------------------------------------------------- generate_image
\* a precondition that lets an empty account through
BalanceTooLowNegative(balance) == balance < 0

\* line 73: the precondition on the balance
BalanceTooLow(balance) == balance < 1

\* an optimizer switch that looks at the configuration's defaults only
OptimizerWantedByConfig(req, cfg) ==
    /\ req.enable_optimization
    /\ Truthy(cfg.optimizer_model)
    /\ Truthy(cfg.system_prompt)

\* line 87: is the optimizer invoked
OptimizerWanted(req, cfg) ==
    /\ req.enable_optimization
    /\ Truthy(Or(req.optimizer_model, cfg.optimizer_model))
    /\ Truthy(Or(req.system_prompt, cfg.system_prompt))

\* lines 72-96 up to the optimizer's request: the preconditions, the resolved
\* optimizer settings and optimize_prompt's early return without an API key;
\* the model remembers the whole request, or the fields of Kept
SubmitKeeping(b, reqs, whole) ==
    /\ pc[b] = "idle"
    /\ \E u \in Users, req \in reqs :
        /\ owner' = [owner EXCEPT ![b] = u]
        /\ IF BalanceTooLow(points[u])
           THEN /\ pc' = [pc EXCEPT ![b] = "rejected"]
                /\ response' = [response EXCEPT ![b] = Rejected(400)]
                /\ UNCHANGED <<request, optimized_prompt>>
           ELSE IF GetActiveApiConfig(api_configs) = <<>>
           THEN /\ pc' = [pc EXCEPT ![b] = "rejected"]
                /\ response' = [response EXCEPT ![b] = Rejected(500)]
                /\ UNCHANGED <<request, optimized_prompt>>
           ELSE /\ request' = [request EXCEPT ![b] =
                                   IF whole THEN req ELSE Kept(req)]
                /\ response' = response
                /\ IF OptimizerWanted(req, GetActiveApiConfig(api_configs)[1])
                      /\ Truthy(Or(GetActiveApiConfig(api_configs)[1].api_key,
                                   default_api_key))
                   THEN /\ pc' = [pc EXCEPT ![b] = "optimize"]
                        /\ optimized_prompt' = optimized_prompt
                   ELSE /\ pc' = [pc EXCEPT ![b] = "create"]
                        /\ optimized_prompt' =
                               [optimized_prompt EXCEPT ![b] = req.prompt]
    /\ UNCHANGED <<storeVars, callerVars, optimizer_answer, generations,
                   provider_calls, user_points, debit_calls, charged>>

\* generate_image up to the optimizer's request, the request cut to Kept
Submit(b, reqs) == SubmitKeeping(b, reqs, FALSE)

\* lines 88-94 after the await: the optimizer has answered
OptimizeReturn(b, resps) ==
    /\ pc[b] = "optimize"
    /\ \E resp \in resps :
        /\ optimizer_answer' = [optimizer_answer EXCEPT ![b] = resp]
        /\ optimized_prompt' = [optimized_prompt EXCEPT ![b] =
                                   OptimizePromptResult(request[b].prompt, resp)]
    /\ pc' = [pc EXCEPT ![b] = "create"]
    /\ UNCHANGED <<storeVars, callerVars, owner, request, generations,
                   provider_calls, user_points, debit_calls, charged, response>>

\* a row that stores whatever optimize_prompt returned
NewGenerationAlwaysOptimized(user_id, req, optimized, model) ==
    [user_id |-> user_id,
     prompt |-> req.prompt,
     optimized_prompt |-> optimized,
     model |-> model,
     points_used |-> 1,
     status |-> "processing",
     image_url |-> Null,
     base64_image |-> Null,
     error_message |-> Null,
     completed_at |-> Null]

\* lines 102-109: the Generation row of one model
NewGeneration(user_id, req, optimized, model) ==
    [user_id |-> user_id,
     prompt |-> req.prompt,
     optimized_prompt |-> IF optimized # req.prompt THEN optimized ELSE Null,
     model |-> model,
     points_used |-> 1,
     status |-> "processing",
     image_url |-> Null,
     base64_image |-> Null,
     error_message |-> Null,
     completed_at |-> Null]

\* lines 98-118: one row per requested model, committed together
CreateRecords(b) ==
    /\ pc[b] = "create"
    /\ generations' = [generations EXCEPT ![b] =
           [i \in 1..Len(request[b].models) |->
               NewGeneration(owner[b], request[b], optimized_prompt[b],
                             request[b].models[i])]]
    /\ pc' = [pc EXCEPT ![b] = "call"]
    /\ UNCHANGED <<storeVars, callerVars, owner, request, optimizer_answer,
                   optimized_prompt,
                   provider_calls, user_points, debit_calls, charged, response>>

\* lines 128-136: the row after its provider call returned image_result
Resolved(gen, image_result) ==
    IF image_result.success
    THEN [gen EXCEPT !.status = "completed",
                     !.image_url = image_result.image_url,
                     !.base64_image = image_result.base64_image,
                     !.completed_at = "utcnow"]
    ELSE [gen EXCEPT !.status = "failed",
                     !.error_message = image_result.error]

\* the loop variable of line 122: the first row not yet resolved
NextIndex(gens) == Cardinality({i \in DOMAIN gens : gens[i].status # "processing"}) + 1

\* a loop that gives up the remaining models once a call has failed
ProviderCallFailFast(b, resps) ==
    /\ pc[b] = "call"
    /\ LET i == NextIndex(generations[b])
       IN  \E resp \in resps :
                /\ generations' = [generations EXCEPT ![b][i] =
                                      Resolved(generations[b][i], CallAiApi(resp))]
                /\ provider_calls' = [provider_calls EXCEPT ![b] =
                       Append(@, [model |-> generations[b][i].model,
                                  prompt |-> optimized_prompt[b],
                                  success |-> CallAiApi(resp).success])]
                /\ pc' = [pc EXCEPT ![b] =
                             IF i = Len(generations[b]) \/ ~CallAiApi(resp).success
                             THEN "settle" ELSE "call"]
    /\ UNCHANGED <<storeVars, callerVars, owner, request, optimizer_answer,
                   optimized_prompt,
                   user_points, debit_calls, charged, response>>

\* lines 122-140, one iteration: the call for the next row and its outcome
ProviderCall(b, resps) ==
    /\ pc[b] = "call"
    /\ LET i == NextIndex(generations[b])
       IN  /\ \E resp \in resps :
                /\ generations' = [generations EXCEPT ![b][i] =
                                      Resolved(generations[b][i], CallAiApi(resp))]
                /\ provider_calls' = [provider_calls EXCEPT ![b] =
                       Append(@, [model |-> generations[b][i].model,
                                  prompt |-> optimized_prompt[b],
                                  success |-> CallAiApi(resp).success])]
           /\ pc' = [pc EXCEPT ![b] =
                        IF i = Len(generations[b]) THEN "settle" ELSE "call"]
    /\ UNCHANGED <<storeVars, callerVars, owner, request, optimizer_answer,
                   optimized_prompt,
                   user_points, debit_calls, charged, response>>

\* line 143
SuccessfulGenerations(gens) ==
    Cardinality({i \in DOMAIN gens : gens[i].status = "completed"})

\* lines 146-148
PointsToDeduct(req) == IF req.enable_optimization THEN 1 + 1 ELSE 1

\* a settlement that charges whether or not anything succeeded
ShouldDeductAlways(successful_generations) == TRUE

\* line 151: does the settlement call deduct_points
ShouldDeduct(successful_generations) == successful_generations > 0

\* deduct_points without its balance check
InsufficientUnchecked(balance, amount) == FALSE

\* deduct_points refusing a balance that just covers the amount
InsufficientOffByOne(balance, amount) == balance <= amount

\* deduct_points line 203
Insufficient(balance, amount) == balance < amount

\* points_used with the charge divided among the completed rows
MarkChargedSplit(gens, points_to_deduct) ==
    LET n == Cardinality({i \in DOMAIN gens : gens[i].status = "completed"})
    IN  [i \in DOMAIN gens |->
            IF gens[i].status = "completed"
            THEN [gens[i] EXCEPT !.points_used = points_to_deduct \div n]
            ELSE [gens[i] EXCEPT !.points_used = 0]]

\* lines 154-158: points_used after a successful debit
MarkCharged(gens, points_to_deduct) ==
    [i \in DOMAIN gens |->
        IF gens[i].status = "completed"
        THEN [gens[i] EXCEPT !.points_used = points_to_deduct]
        ELSE [gens[i] EXCEPT !.points_used = 0]]

\* lines 161-162: points_used when nothing succeeded
MarkFree(gens) == [i \in DOMAIN gens |-> [gens[i] EXCEPT !.points_used = 0]]

\* str(e) of the HTTPException deduct_points raises
InsufficientText == "400: Insufficient points"

\* a handler that leaves resolved records as they are
MarkProcessingFailed(gens, text) ==
    [i \in DOMAIN gens |->
        IF gens[i].status = "processing"
        THEN [gens[i] EXCEPT !.status = "failed", !.error_message = text,
                             !.points_used = 0]
        ELSE gens[i]]

\* lines 168-171: the handler of the outer try
MarkAllFailed(gens, text) ==
    [i \in DOMAIN gens |->
        [gens[i] EXCEPT !.status = "failed", !.error_message = text,
                        !.points_used = 0]]

\* lines 143-152 and deduct_points lines 202-204: the count, the charge, and,
\* with a success, the balance read and check of deduct_points.  A rejected
\* debit raises into the handler of line 166.
Settle(b) ==
    /\ pc[b] = "settle"
    /\ IF ShouldDeduct(SuccessfulGenerations(generations[b]))
       THEN IF Insufficient(points[owner[b]], PointsToDeduct(request[b]))
            THEN /\ generations' = [generations EXCEPT ![b] =
                                       MarkAllFailed(@, InsufficientText)]
                 /\ pc' = [pc EXCEPT ![b] = "return"]
                 /\ UNCHANGED user_points
            ELSE /\ user_points' = [user_points EXCEPT ![b] = points[owner[b]]]
                 /\ pc' = [pc EXCEPT ![b] = "deduct"]
                 /\ UNCHANGED generations
       ELSE /\ generations' = [generations EXCEPT ![b] = MarkFree(@)]
            /\ pc' = [pc EXCEPT ![b] = "return"]
            /\ UNCHANGED user_points
    /\ UNCHANGED <<storeVars, callerVars, owner, request, optimizer_answer,
                   optimized_prompt,
                   provider_calls, debit_calls, charged, response>>

\* a settlement that debits once for every completed row
DeductWritePerRecord(b) ==
    /\ pc[b] = "deduct"
    /\ LET amount == PointsToDeduct(request[b])
           n == SuccessfulGenerations(generations[b])
       IN  /\ points' = [points EXCEPT ![owner[b]] = user_points[b] - n * amount]
           /\ points_null' = [points_null EXCEPT ![owner[b]] = FALSE]
           /\ debit_calls' = [debit_calls EXCEPT ![b] = @ + n]
           /\ charged' = [charged EXCEPT ![b] = @ + n * amount]
    /\ pc' = [pc EXCEPT ![b] = "mark"]
    /\ UNCHANGED <<sideVars, initial_points, api_configs, code_used, code_points,
                   callerVars, owner, request, optimizer_answer, optimized_prompt,
                   generations, provider_calls, user_points, response>>

\* deduct_points lines 206-207: the balance computed from the value read is
\* written back and committed
DeductWrite(b) ==
    /\ pc[b] = "deduct"
    /\ LET amount == PointsToDeduct(request[b])
       IN  /\ points' = [points EXCEPT ![owner[b]] = user_points[b] - amount]
           /\ points_null' = [points_null EXCEPT ![owner[b]] = FALSE]
           /\ debit_calls' = [debit_calls EXCEPT ![b] = @ + 1]
           /\ charged' = [charged EXCEPT ![b] = @ + amount]
    /\ pc' = [pc EXCEPT ![b] = "mark"]
    /\ UNCHANGED <<sideVars, initial_points, api_configs, code_used, code_points,
                   callerVars, owner, request, optimizer_answer, optimized_prompt,
                   generations,
                   provider_calls, user_points, response>>

\* lines 154-164: points_used of every row, committed
Mark(b) ==
    /\ pc[b] = "mark"
    /\ generations' = [generations EXCEPT ![b] =
                          MarkCharged(@, PointsToDeduct(request[b]))]
    /\ pc' = [pc EXCEPT ![b] = "return"]
    /\ UNCHANGED <<storeVars, callerVars, owner, request, optimizer_answer,
                   optimized_prompt,
                   provider_calls, user_points, debit_calls, charged, response>>

\* a return that does not wait for the settlement
ReturnUnsettled(b) ==
    /\ pc[b] \in {"settle", "return"}
    /\ response' = [response EXCEPT ![b] = Returned(generations[b])]
    /\ pc' = [pc EXCEPT ![b] = "returned"]
    /\ UNCHANGED <<storeVars, callerVars, owner, request, optimizer_answer,
                   optimized_prompt,
                   generations, provider_calls, user_points, debit_calls, charged>>

\* line 174
Return(b) ==
    /\ pc[b] = "return"
    /\ response' = [response EXCEPT ![b] = Returned(generations[b])]
    /\ pc' = [pc EXCEPT ![b] = "returned"]
    /\ UNCHANGED <<storeVars, callerVars, owner, request, optimizer_answer,
                   optimized_prompt,
                   generations, provider_calls, user_points, debit_calls, charged>>

\* ------------------------------------------------- ledger callers (threads)
\* redeem_code lines 146-159: the code and the user are loaded and checked
RedeemRead(c) ==
    /\ cpc[c] = "idle"
    /\ \E u \in Users, expired \in BOOLEAN :
        /\ cuser' = [cuser EXCEPT ![c] = u]
        /\ IF code_used \/ expired
           THEN /\ cpc' = [cpc EXCEPT ![c] = "failed"]
                /\ UNCHANGED cread
           ELSE /\ cpc' = [cpc EXCEPT ![c] = "redeem"]
                /\ cread' = [cread EXCEPT ![c] = points[u]]
    /\ UNCHANGED <<storeVars, batchVars, camount, credited>>

\* redeem_code lines 163-178: the code is marked used, the balance computed
\* from the value read is written back, all committed together
RedeemWrite(c) ==
    /\ cpc[c] = "redeem"
    /\ code_used' = TRUE
    /\ points' = [points EXCEPT ![cuser[c]] = cread[c] + code_points]
    /\ points_null' = [points_null EXCEPT ![cuser[c]] = FALSE]
    /\ credited' = [credited EXCEPT ![c] = @ + code_points]
    /\ cpc' = [cpc EXCEPT ![c] = "done"]
    /\ UNCHANGED <<sideVars, initial_points, api_configs, code_points, batchVars,
                   cuser, cread, camount>>

\* add_points line 213: the user is loaded; the amount comes from amounts
AddReadFrom(c, amounts) ==
    /\ cpc[c] = "idle"
    /\ \E u \in Users, amount \in amounts :
        /\ cuser' = [cuser EXCEPT ![c] = u]
        /\ camount' = [camount EXCEPT ![c] = amount]
        /\ cread' = [cread EXCEPT ![c] = points[u]]
    /\ cpc' = [cpc EXCEPT ![c] = "add"]
    /\ UNCHANGED <<storeVars, batchVars, credited>>

\* add_points called to credit points
AddRead(c) == AddReadFrom(c, 1..MaxCredit)

\* add_points lines 214-215
AddWrite(c) ==
    /\ cpc[c] = "add"
    /\ points' = [points EXCEPT ![cuser[c]] = cread[c] + camount[c]]
    /\ points_null' = [points_null EXCEPT ![cuser[c]] = FALSE]
    /\ credited' = [credited EXCEPT ![c] = @ + camount[c]]
    /\ cpc' = [cpc EXCEPT ![c] = "done"]
    /\ UNCHANGED <<sideVars, initial_points, api_configs, code_used, code_points,
                   batchVars, cuser, cread, camount>>

CallerStep(c) ==
    \/ RedeemRead(c)
    \/ RedeemWrite(c)
    \/ AddRead(c)
    \/ AddWrite(c)

\* --------------------------------------------------------- specifications
\* The ledger under concurrency: two generate_image calls and a ledger caller
\* on one account.  What the providers answer is cut down to what the
\* settlement can tell apart: a call that fails and a call that succeeds, an
\* optimizer that fails and one that rewrites the prompt.
LedgerRequests ==
    [prompt : {"cat"}, enable_optimization : BOOLEAN, models : ModelLists,
     optimizer_model : {Null}, system_prompt : {Null}]

LedgerConfigs ==
    {[config_key |-> "default", api_key |-> "key",
      optimizer_model |-> "gpt-4o-mini", system_prompt |-> sp,
      is_active |-> TRUE] : sp \in {Null, "sys"}}

LedgerOptimizerResponses ==
    {r \in OptimizerResponses : r.kind = "raise" \/ r.choices = <<"dog">>}

LedgerProviderResponses ==
    {r \in ProviderResponses :
        r.kind = "raise" \/ (r.status_code = 200 /\ r.data = <<[url |-> "URL"]>>)}

BatchStep(b) ==
    \/ Submit(b, LedgerRequests)
    \/ OptimizeReturn(b, LedgerOptimizerResponses)
    \/ CreateRecords(b)
    \/ ProviderCall(b, LedgerProviderResponses)
    \/ Settle(b)
    \/ DeductWrite(b)
    \/ Mark(b)
    \/ Return(b)

Init == InitWith(LedgerConfigs)

\* concurrent generate_image calls on one account
Next == \E b \in Batches : BatchStep(b)

Spec == Init /\ [][Next]_vars

\* One generate_image call alone, with everything a request, the active
\* configuration and the two providers can be.
DetailStep(b) ==
    \/ Submit(b, Requests)
    \/ OptimizeReturn(b, OptimizerResponses)
    \/ CreateRecords(b)
    \/ ProviderCall(b, ProviderResponses)
    \/ Settle(b)
    \/ DeductWrite(b)
    \/ Mark(b)
    \/ Return(b)

DetailInit == InitWith(ApiConfigs)

DetailNext == \E b \in {"b1"} : DetailStep(b)

DetailSpec == DetailInit /\ [][DetailNext]_vars

\* One generate_image call with every request and configuration, the request
\* remembered whole; the image provider's answers are cut down as above.
OptimizerStep(b) ==
    \/ SubmitKeeping(b, Requests, TRUE)
    \/ OptimizeReturn(b, OptimizerResponses)
    \/ CreateRecords(b)
    \/ ProviderCall(b, LedgerProviderResponses)
    \/ Settle(b)
    \/ DeductWrite(b)
    \/ Mark(b)
    \/ Return(b)

OptimizerNext == \E b \in {"b1"} : OptimizerStep(b)

OptimizerSpec == DetailInit /\ [][OptimizerNext]_vars

\* the same with a ledger caller (redeem_code, add_points) beside them
LedgerNext ==
    \/ \E b \in Batches : BatchStep(b)
    \/ \E c \in {"c1"} : CallerStep(c)

LedgerSpec == Init /\ [][LedgerNext]_vars

\* Two redeem_code calls on the one redemption code, in any interleaving.
RedeemNext == \E c \in Callers : RedeemRead(c) \/ RedeemWrite(c)

RedeemSpec == Init /\ [][RedeemNext]_vars

\* ------------------------------------------------- direct edits of the account
\* Optional[...] values: <<>> is None, <<v>> is v
None == <<>>

\* the values an administrator may send for points (no validator bounds them)
AdminPoints == (0 - 1)..MaxPoints

UserUpdateFields == {"is_active", "is_admin", "points"}

\* UserUpdate as pydantic holds it: the value of each field, and the fields
\* that were set (by the request body or by a later assignment)
UserUpdates ==
    {d \in [fields_set : SUBSET UserUpdateFields,
            is_active : {None, <<TRUE>>},
            is_admin : {None, <<FALSE>>},
            points : {None} \cup {<<n>> : n \in AdminPoints}] :
        /\ "is_active" \notin d.fields_set => d.is_active = None
        /\ "is_admin" \notin d.fields_set => d.is_admin = None
        /\ "points" \notin d.fields_set => d.points = None}

\* UserUpdate(): no field set
EmptyUpdate ==
    [fields_set |-> {}, is_active |-> None, is_admin |-> None, points |-> None]

\* user_data.points = value: the assignment also records the field as set
SetPoints(d, value) ==
    [d EXCEPT !.points = value, !.fields_set = @ \cup {"points"}]

\* user_data.is_admin = value
SetIsAdmin(d, value) ==
    [d EXCEPT !.is_admin = value, !.fields_set = @ \cup {"is_admin"}]

\* user_data.is_active = value
SetIsActive(d, value) ==
    [d EXCEPT !.is_active = value, !.fields_set = @ \cup {"is_active"}]

\* UserService.update_user lines 82-91: every field of
\* user_data.dict(exclude_unset=True) is written to the row and committed;
\* of the row the model keeps the balance
UpdateUser(u, user_data) ==
    /\ IF "points" \in user_data.fields_set
       THEN IF user_data.points = None
            THEN /\ points' = [points EXCEPT ![u] = 0]
                 /\ points_null' = [points_null EXCEPT ![u] = TRUE]
            ELSE /\ points' = [points EXCEPT ![u] = user_data.points[1]]
                 /\ points_null' = [points_null EXCEPT ![u] = FALSE]
       ELSE UNCHANGED <<points, points_null>>
    /\ UNCHANGED <<sideVars, initial_points, api_configs, code_used, code_points,
                   batchVars, callerVars>>

\* routers/users.py lines 43-55: PUT /users/me
UpdateCurrentUser(u, datas) ==
    \E user_data \in datas :
        UpdateUser(u, SetPoints(SetIsAdmin(user_data, None), None))

\* routers/users.py lines 77-86: PUT /users/admin/users/{user_id} with a body
UpdateUserAdmin(u, datas) ==
    \E user_data \in datas : UpdateUser(u, user_data)

\* routers/users.py lines 193-213: the same path with query parameters
UpdateUserAdminQuery(u, values) ==
    \E q_points \in {None} \cup {<<n>> : n \in values},
       q_is_active \in {None, <<TRUE>>} :
        LET with_points == IF q_points # None
                           THEN SetPoints(EmptyUpdate, q_points)
                           ELSE EmptyUpdate
            update_data == IF q_is_active # None
                           THEN SetIsActive(with_points, q_is_active)
                           ELSE with_points
        IN  UpdateUser(u, update_data)

\* str(e) of the TypeError Python raises on None < 1 and None - 1
TypeErrorText == "TypeError: NoneType"

\* generate_image line 73 on a NULL balance: the comparison raises outside
\* every handler and the request ends with status 500
SubmitTypeError(b) ==
    /\ pc[b] = "idle"
    /\ \E u \in Users :
        /\ points_null[u]
        /\ owner' = [owner EXCEPT ![b] = u]
    /\ pc' = [pc EXCEPT ![b] = "rejected"]
    /\ response' = [response EXCEPT ![b] = Rejected(500)]
    /\ UNCHANGED <<storeVars, callerVars, request, optimizer_answer,
                   optimized_prompt, generations, provider_calls, user_points,
                   debit_calls, charged>>

\* does deduct_points meet a NULL balance in the settlement of b
SettleRaises(b) ==
    /\ ShouldDeduct(SuccessfulGenerations(generations[b]))
    /\ points_null[owner[b]]

\* deduct_points line 203 on a NULL balance: the comparison raises into the
\* handler of generate_image line 166
SettleTypeError(b) ==
    /\ pc[b] = "settle"
    /\ SettleRaises(b)
    /\ generations' = [generations EXCEPT ![b] = MarkAllFailed(@, TypeErrorText)]
    /\ pc' = [pc EXCEPT ![b] = "return"]
    /\ UNCHANGED <<storeVars, callerVars, owner, request, optimizer_answer,
                   optimized_prompt, provider_calls, user_points, debit_calls,
                   charged, response>>

\* redeem_code line 170 and add_points line 214 on a NULL balance: None + n
\* raises, nothing is committed
CallerTypeError(c) ==
    /\ cpc[c] = "idle"
    /\ \E u \in Users :
        /\ points_null[u]
        /\ cuser' = [cuser EXCEPT ![c] = u]
    /\ cpc' = [cpc EXCEPT ![c] = "failed"]
    /\ UNCHANGED <<storeVars, batchVars, cread, camount, credited>>

\* a generate_image call on an account whose balance may be NULL
AccountBatchStep(b) ==
    \/ (\A u \in Users : ~points_null[u]) /\ Submit(b, LedgerRequests)
    \/ SubmitTypeError(b)
    \/ OptimizeReturn(b, LedgerOptimizerResponses)
    \/ CreateRecords(b)
    \/ ProviderCall(b, LedgerProviderResponses)
    \/ pc[b] = "settle" /\ ~SettleRaises(b) /\ Settle(b)
    \/ SettleTypeError(b)
    \/ DeductWrite(b)
    \/ Mark(b)
    \/ Return(b)

\* the amounts add_points may be called with (it keeps none out)
AddAmounts == (0 - 1)..MaxCredit

\* a ledger caller on an account whose balance may be NULL
AccountCallerStep(c) ==
    \/ (\A u \in Users : ~points_null[u]) /\ RedeemRead(c)
    \/ RedeemWrite(c)
    \/ (\A u \in Users : ~points_null[u]) /\ AddReadFrom(c, AddAmounts)
    \/ AddWrite(c)
    \/ CallerTypeError(c)

\* the request bodies that differ in what they do to the balance
AccountUpdates == {d \in UserUpdates : d.is_active = None /\ d.is_admin = None}

\* Every operation that writes users.points: one generate_image call, one
\* ledger caller, and the two user-update endpoints, in any order.
AccountNext ==
    \/ \E b \in {"b1"} : AccountBatchStep(b)
    \/ \E c \in {"c1"} : AccountCallerStep(c)
    \/ \E u \in Users : UpdateCurrentUser(u, AccountUpdates)
    \/ \E u \in Users : UpdateUserAdmin(u, AccountUpdates)
    \/ \E u \in Users : UpdateUserAdminQuery(u, AdminPoints)

AccountSpec == Init /\ [][AccountNext]_vars

\* PUT /users/me with every request body, beside one generate_image call.
SelfUpdateNext ==
    \/ \E b \in {"b1"} : AccountBatchStep(b)
    \/ \E u \in Users : UpdateCurrentUser(u, UserUpdates)

SelfUpdateSpec == Init /\ [][SelfUpdateNext]_vars

\* ------------------------------------------- administration of api_configs
ConfigKeys == {"default", "second"}

\* ApiConfigCreate bodies
ApiConfigCreates ==
    [config_key : ConfigKeys, api_key : {"key"},
     optimizer_model : {Null, "gpt-4o-mini"}, system_prompt : {Null, "sys"}]

\* ApiConfigUpdate bodies as pydantic holds them: of the five fields the two
\* the requests of the model set, with the fields that were set
ApiConfigUpdates ==
    {d \in [fields_set : SUBSET {"is_active", "system_prompt"},
            is_active : {None, <<TRUE>>, <<FALSE>>},
            system_prompt : {None, <<"sys">>}] :
        /\ "is_active" \in d.fields_set <=> d.is_active # None
        /\ "system_prompt" \notin d.fields_set => d.system_prompt = None}

\* the positions of the rows with this config_key (the column is unique)
RowsWithKey(rows, config_key) ==
    {i \in DOMAIN rows : rows[i].config_key = config_key}

\* UserService.create_api_config: a new row is always inserted active
CreateApiConfig(config_datas) ==
    /\ \E config_data \in config_datas :
        /\ RowsWithKey(api_configs, config_data.config_key) = {}
        /\ api_configs' = Append(api_configs,
               [config_key |-> config_data.config_key,
                api_key |-> config_data.api_key,
                optimizer_model |-> config_data.optimizer_model,
                system_prompt |-> config_data.system_prompt,
                is_active |-> TRUE])
    /\ UNCHANGED <<sideVars, points, points_null, initial_points, code_used, code_points,
                   batchVars, callerVars>>

\* the row after setattr of every field of config_data.dict(exclude_unset=True)
UpdatedConfig(row, config_data) ==
    [row EXCEPT
        !.is_active = IF "is_active" \in config_data.fields_set
                      THEN config_data.is_active[1] ELSE @,
        !.system_prompt = IF "system_prompt" \in config_data.fields_set
                          THEN IF config_data.system_prompt = None
                               THEN Null ELSE config_data.system_prompt[1]
                          ELSE @]

\* UserService.update_api_config
UpdateApiConfig(config_datas) ==
    /\ \E config_key \in ConfigKeys, config_data \in config_datas :
        \E i \in RowsWithKey(api_configs, config_key) :
            api_configs' = [api_configs EXCEPT
                               ![i] = UpdatedConfig(@, config_data)]
    /\ UNCHANGED <<sideVars, points, points_null, initial_points, code_used, code_points,
                   batchVars, callerVars>>

\* the sequence without its i-th element
Without(rows, i) ==
    [k \in 1..(Len(rows) - 1) |-> IF k < i THEN rows[k] ELSE rows[k + 1]]

\* UserService.delete_api_config
DeleteApiConfig ==
    /\ \E config_key \in ConfigKeys :
        \E i \in RowsWithKey(api_configs, config_key) :
            api_configs' = Without(api_configs, i)
    /\ UNCHANGED <<sideVars, points, points_null, initial_points, code_used, code_points,
                   batchVars, callerVars>>

\* The administrator's operations on api_configs, in any order.  A call that
\* ends in 400 or 404 writes nothing and is no step.
ConfigNext ==
    \/ CreateApiConfig(ApiConfigCreates)
    \/ UpdateApiConfig(ApiConfigUpdates)
    \/ DeleteApiConfig

ConfigSpec == Init /\ [][ConfigNext]_vars

\* ------------------------------------------------------------ registration
Usernames == {"ann", "bob", "cy"}

\* the codes generate_invite_code may draw
InviteCodeNames == {"CODE1"}

\* UserCreate bodies; the password is hashed and stored, nothing reads it
UserCreates == [username : Usernames, invite_code : {Null} \cup InviteCodeNames]

\* db.query(User).filter(User.username == username).first() finds a row
UsernameExists(rows, username) == \E row \in rows : row.username = username

\* create_user lines 23-34: the query for an unused invite code finds a row,
\* and the row has not expired
InviteCodeValid(codes, code) ==
    /\ code \in DOMAIN codes
    /\ ~codes[code].is_used
    /\ ~codes[code].expired

\* generate_invite_code, called by a logged-in user: a new row of
\* invite_codes, with an expiry time that has passed or with none
GenerateInviteCode ==
    /\ user_rows # {}
    /\ \E code \in InviteCodeNames \ DOMAIN invite_codes, expired \in BOOLEAN :
          invite_codes' =
              [c \in DOMAIN invite_codes \cup {code} |->
                  IF c = code THEN [is_used |-> FALSE, expired |-> expired]
                  ELSE invite_codes[c]]
    /\ UNCHANGED <<user_rows, rpc, rdata, historyVars, extraction, mainVars>>

\* create_user lines 18-40: the checks of the username, of the invite code
\* and, without a code, of the number of users
RegisterCheck(r) ==
    /\ rpc[r] = "idle"
    /\ \E user_data \in UserCreates :
          IF \/ UsernameExists(user_rows, user_data.username)
             \/ /\ Truthy(user_data.invite_code)
                /\ ~InviteCodeValid(invite_codes, user_data.invite_code)
             \/ /\ ~Truthy(user_data.invite_code)
                /\ Cardinality(user_rows) > 0
          THEN /\ rpc' = [rpc EXCEPT ![r] = "rejected"]
               /\ UNCHANGED rdata
          ELSE /\ rpc' = [rpc EXCEPT ![r] = "commit"]
               /\ rdata' = [rdata EXCEPT ![r] = user_data]
    /\ UNCHANGED <<user_rows, invite_codes, historyVars, extraction, mainVars>>

\* create_user lines 49-68: the invite code is marked used and the user row
\* inserted, in one transaction; the unique index on username turns a
\* duplicate into IntegrityError, rollback and status 400
RegisterCommit(r) ==
    /\ rpc[r] = "commit"
    /\ IF UsernameExists(user_rows, rdata[r].username)
       THEN /\ rpc' = [rpc EXCEPT ![r] = "rejected"]
            /\ UNCHANGED <<user_rows, invite_codes>>
       ELSE /\ rpc' = [rpc EXCEPT ![r] = "created"]
            /\ user_rows' = user_rows \cup {rdata[r]}
            /\ invite_codes' =
                   IF Truthy(rdata[r].invite_code)
                   THEN [invite_codes EXCEPT ![rdata[r].invite_code].is_used = TRUE]
                   ELSE invite_codes
    /\ rdata' = [rdata EXCEPT ![r] = NoUserData]
    /\ UNCHANGED <<historyVars, extraction, mainVars>>

\* the response is sent; the worker takes the next request
RegisterReturn(r) ==
    /\ rpc[r] \in {"created", "rejected"}
    /\ rpc' = [rpc EXCEPT ![r] = "idle"]
    /\ UNCHANGED <<user_rows, invite_codes, rdata, historyVars, extraction, mainVars>>

RegisterNext ==
    \/ GenerateInviteCode
    \/ \E r \in Registrants : RegisterCheck(r)
    \/ \E r \in Registrants : RegisterCommit(r)
    \/ \E r \in Registrants : RegisterReturn(r)

RegisterSpec == Init /\ [][RegisterNext]_vars

\* ------------------------------------------------------ payload extraction
\* the data lists of a provider response
DataLists == UNION {[1..n -> Items] : n \in 0..MaxData}

\* _call_ai_api line 230: a response body arrives
ReceiveData(datas) ==
    /\ extraction.state = "idle"
    /\ \E data \in datas :
          extraction' = [extraction EXCEPT !.state = "received", !.data = data]
    /\ UNCHANGED <<historyVars, registerVars, mainVars>>

\* _call_ai_api line 233: image_data = self._extract_image_data(result)
ExtractData ==
    /\ extraction.state = "received"
    /\ extraction' = [extraction EXCEPT !.state = "extracted",
                          !.image_data = ExtractImageData(extraction.data)]
    /\ UNCHANGED <<historyVars, registerVars, mainVars>>

ExtractNext ==
    \/ ReceiveData(DataLists)
    \/ ExtractData

ExtractSpec == Init /\ [][ExtractNext]_vars

\* ------------------------------------------------ the generation history
\* the users that own rows of the generations table
Owners == {"u1", "u2"}

RowIds == 1..MaxRows

\* the id the database gives the next row
NextId(rows) ==
    IF DOMAIN rows = {} THEN 1
    ELSE (CHOOSE id \in DOMAIN rows : \A other \in DOMAIN rows : other <= id) + 1

\* generate_image lines 101-114, seen from the table: a row of user_id is
\* inserted and committed
StoreGeneration(user_id) ==
    /\ NextId(generation_rows) \in RowIds
    /\ generation_rows' =
           [id \in DOMAIN generation_rows \cup {NextId(generation_rows)} |->
               IF id \in DOMAIN generation_rows THEN generation_rows[id]
               ELSE user_id]
    /\ UNCHANGED <<removal, extraction, registerVars, mainVars>>

\* a filter that forgets the owner
OwnedByAnyone(rows, user_id) == DOMAIN rows

\* filter(Generation.user_id == user_id)
OwnedBy(rows, user_id) == {id \in DOMAIN rows : rows[id] = user_id}

\* the table after DELETE of the rows in deleted
Deleted(rows, deleted) == [id \in DOMAIN rows \ deleted |-> rows[id]]

\* GenerationService.delete_generations
DeleteGenerations(user_id, generation_ids) ==
    LET deleted == generation_ids \cap OwnedBy(generation_rows, user_id)
        deleted_count == Cardinality(deleted)
    IN  /\ generation_rows' = Deleted(generation_rows, deleted)
        /\ removal' = [caller |-> user_id, kind |-> "delete",
                       ids |-> generation_ids, result |-> deleted_count > 0]
        /\ UNCHANGED <<extraction, registerVars, mainVars>>

\* GenerationService.clear_user_generations
ClearUserGenerations(user_id) ==
    LET deleted == OwnedBy(generation_rows, user_id)
        deleted_count == Cardinality(deleted)
    IN  /\ generation_rows' = Deleted(generation_rows, deleted)
        /\ removal' = [caller |-> user_id, kind |-> "clear",
                       ids |-> {}, result |-> deleted_count > 0]
        /\ UNCHANGED <<extraction, registerVars, mainVars>>

\* Users filling and pruning their histories, in any order.  The route
\* refuses an empty generation_ids before the service is called.
HistoryNext ==
    \/ \E u \in Owners : StoreGeneration(u)
    \/ \E u \in Owners, ids \in SUBSET RowIds \ {{}} : DeleteGenerations(u, ids)
    \/ \E u \in Owners : ClearUserGenerations(u)

HistorySpec == Init /\ [][HistoryNext]_vars

\* ----------------------------------------------------------------- claims
\* the sum of f over the finite set S
RECURSIVE SumOver(_, _)
SumOver(S, f) ==
    IF S = {} THEN 0
    ELSE LET x == CHOOSE y \in S : TRUE
         IN  f[x] + SumOver(S \ {x}, f)

\* C1: whatever the interleaving of concurrent generate_image calls on one
\* account, the account's balance is never below 0.
C1_BalanceNeverNegative == \A u \in Users : points[u] >= 0

\* C1 witness: a call is about to write back a balance it read before the
\* other call committed its own debit.
C1_StaleDebitPending ==
    \E b1, b2 \in Batches :
        /\ b1 # b2
        /\ owner[b1] = owner[b2]
        /\ pc[b1] = "deduct"
        /\ debit_calls[b2] = 1
        /\ user_points[b1] > points[owner[b1]]

\* C2: no balance update is lost: the balance is the initial balance plus the
\* credits that reported success minus the debits that reported success.
C2_NoLostUpdate ==
    \A u \in Users :
        points[u] = initial_points[u]
                    + SumOver({c \in Callers : cuser[c] = u}, credited)
                    - SumOver({b \in Batches : owner[b] = u}, charged)

\* did a provider call of b succeed / have all K calls of b failed
SomeCallSucceeded(b) ==
    \E i \in DOMAIN provider_calls[b] : provider_calls[b][i].success

AllCallsFailed(b) ==
    /\ Len(provider_calls[b]) = Len(request[b].models)
    /\ \A i \in DOMAIN provider_calls[b] : ~provider_calls[b][i].success

\* C3: a batch that passed the preconditions and had at least one successful
\* provider call is debited exactly 1 point without optimization and exactly
\* 2 with it, whatever the number of models and of successes.
C3_FlatChargeDebited ==
    \A b \in Batches :
        (pc[b] = "returned" /\ SomeCallSucceeded(b))
            => charged[b] = IF request[b].enable_optimization THEN 2 ELSE 1

\* C4: a batch debits the account zero times or once, never more.
C4_AtMostOneDebit == \A b \in Batches : debit_calls[b] <= 1

\* C4 witness: a returned batch of several models, all of them successful,
\* with its one debit.
C4_OneDebitManySuccesses ==
    \E b \in Batches :
        /\ pc[b] = "returned"
        /\ Len(request[b].models) >= 2
        /\ \A i \in DOMAIN provider_calls[b] : provider_calls[b][i].success
        /\ debit_calls[b] = 1

\* C5: when every provider call of a batch failed, the batch takes nothing
\* off the balance (the balance is the initial one unless another call
\* debited it) and every returned record has points_used = 0.
C5_AllFailNoCharge ==
    \A b \in Batches :
        (pc[b] = "returned" /\ AllCallsFailed(b))
            => /\ debit_calls[b] = 0
               /\ charged[b] = 0
               /\ (\A b2 \in Batches \ {b} : charged[b2] = 0)
                      => points[owner[b]] = initial_points[owner[b]]
               /\ \A i \in DOMAIN response[b].records :
                      response[b].records[i].points_used = 0

\* C5 witness: a returned batch with optimization requested whose calls all
\* failed.
C5_AllFailedReturned ==
    \E b \in Batches :
        /\ pc[b] = "returned"
        /\ AllCallsFailed(b)
        /\ request[b].enable_optimization
        /\ Len(response[b].records) >= 2

\* C6: a record that is completed or failed keeps that status in every later
\* step.
C6_StatusTerminal ==
    [][\A b \in Batches : \A i \in DOMAIN generations[b] :
          generations[b][i].status # "processing"
              => generations'[b][i].status = generations[b][i].status]_vars

\* C7: a record that is processing, or failed, has points_used = 0.
C7_UnsettledPointsZero ==
    \A b \in Batches : \A i \in DOMAIN generations[b] :
        generations[b][i].status \in {"processing", "failed"}
            => generations[b][i].points_used = 0

\* C8: on return every completed record reports the amount debited for the
\* batch (the balance went down by it, unless another call debited too),
\* every failed record reports 0, and the batch has a completed record
\* exactly when the account was debited.
C8_PointsUsedIsBatchCharge ==
    \A b \in Batches :
        pc[b] = "returned" =>
            LET recs == response[b].records
            IN  /\ \A i \in DOMAIN recs :
                      /\ recs[i].status = "completed"
                             => recs[i].points_used = charged[b]
                      /\ recs[i].status = "failed" => recs[i].points_used = 0
                      /\ recs[i].status \in {"completed", "failed"}
                /\ (\E i \in DOMAIN recs : recs[i].status = "completed")
                       <=> debit_calls[b] = 1
                /\ debit_calls[b] = 0 => charged[b] = 0
                /\ (\A b2 \in Batches \ {b} : debit_calls[b2] = 0)
                       => points[owner[b]] = initial_points[owner[b]] - charged[b]

\* C8 witness: a returned batch with optimization, two completed records and
\* the charge of 2 on each.
C8_TwoCompletedCharged ==
    \E b \in Batches :
        /\ pc[b] = "returned"
        /\ charged[b] = 2
        /\ Len(response[b].records) >= 2
        /\ \A i \in 1..2 :
              /\ response[b].records[i].status = "completed"
              /\ response[b].records[i].points_used = 2

\* C9: a call that passes its preconditions returns one record per requested
\* model, in request order.
C9_OneRecordPerModel ==
    \A b \in Batches :
        response[b].status = 200 =>
            /\ Len(response[b].records) = Len(request[b].models)
            /\ \A i \in DOMAIN response[b].records :
                  response[b].records[i].model = request[b].models[i]

\* C9 witness: a returned batch of two models, the first failed and the
\* second completed.
C9_MixedBatchReturned ==
    \E b \in Batches :
        /\ response[b].status = 200
        /\ Len(request[b].models) = 2
        /\ response[b].records[1].status = "failed"
        /\ response[b].records[2].status = "completed"

\* the optimizer raised (transport error, timeout), answered with a status
\* other than 200, or answered 200 with empty text
OptimizerFailed(a) ==
    \/ a.kind = "raise"
    \/ a.kind = "http" /\ a.status_code # 200
    \/ a.kind = "http" /\ a.status_code = 200 /\ a.choices = <<"">>

Settling == {"settle", "deduct", "mark", "return", "returned"}

\* C10: when the optimizer fails, the call is not rejected, every requested
\* model's provider call is issued with the original prompt, and no record
\* carries an optimized prompt.
C10_OptimizerFallback ==
    \A b \in Batches :
        OptimizerFailed(optimizer_answer[b]) =>
            /\ pc[b] # "rejected"
            /\ response[b].status \in {0, 200}
            /\ \A i \in DOMAIN provider_calls[b] :
                  /\ provider_calls[b][i].prompt = request[b].prompt
                  /\ provider_calls[b][i].model = request[b].models[i]
            /\ pc[b] \in Settling
                  => Len(provider_calls[b]) = Len(request[b].models)
            /\ \A i \in DOMAIN generations[b] :
                  generations[b][i].optimized_prompt = Null
            /\ pc[b] = "returned"
                  => Len(response[b].records) = Len(request[b].models)

\* C10 witness: a returned batch of two models whose optimizer call raised.
C10_ReturnedAfterOptimizerError ==
    \E b \in Batches :
        /\ pc[b] = "returned"
        /\ optimizer_answer[b].kind = "raise"
        /\ Len(provider_calls[b]) = 2

\* no row of api_configs is active
NoActiveConfig == \A i \in DOMAIN api_configs : ~api_configs[i].is_active

\* what a call that was turned away has left behind: nothing
NoSideEffects(b) ==
    /\ generations[b] = <<>>
    /\ provider_calls[b] = <<>>
    /\ optimizer_answer[b] = NoAnswer
    /\ debit_calls[b] = 0
    /\ charged[b] = 0

\* the step in which call b is submitted
Submitted(b) == pc[b] = "idle" /\ pc'[b] # "idle"

\* C11: a call submitted while the account's balance is below 1 fails with
\* the insufficient-balance error (400) in that step, the step leaves every
\* balance as it was, and the failed call has asked neither the optimizer nor
\* a provider and has created no record.
C11_LowBalanceRejected ==
    [][\A b \in Batches :
          /\ (Submitted(b) /\ points[owner'[b]] < 1)
                 => /\ pc'[b] = "rejected"
                    /\ response'[b] = Rejected(400)
                    /\ points' = points
          /\ response'[b].status = 400 => NoSideEffects(b)']_vars

\* C11 witness: a call rejected with 400 on an account with balance 0 although
\* a configuration is active.
C11_RejectedAtZero ==
    \E b \in Batches :
        /\ pc[b] = "rejected"
        /\ response[b] = Rejected(400)
        /\ points[owner[b]] = 0
        /\ ~NoActiveConfig

\* C12 as stated: a call submitted while no configuration is active fails
\* with the configuration-missing error (500), whatever the balance.
C12_NoConfigAlways500 ==
    [][\A b \in Batches :
          (Submitted(b) /\ NoActiveConfig)
              => response'[b].status = 500]_vars

\* C12: a call submitted while no configuration is active is rejected in
\* that step, with the configuration-missing error (500) when the balance is
\* at least 1 and with the insufficient-balance error (400) otherwise; the
\* step leaves every balance as it was and the rejected call has asked neither
\* the optimizer nor a provider and has created no record.
C12_NoConfigRejected ==
    [][\A b \in Batches :
          /\ (Submitted(b) /\ NoActiveConfig)
                 => /\ pc'[b] = "rejected"
                    /\ response'[b].status = IF points[owner'[b]] >= 1
                                             THEN 500 ELSE 400
                    /\ response'[b].records = <<>>
                    /\ points' = points
          /\ response'[b].status = 500 => NoSideEffects(b)']_vars

\* C12 witness: a call rejected with 500 on an account that has points.
C12_RejectedWithPoints ==
    \E b \in Batches :
        /\ pc[b] = "rejected"
        /\ response[b].status = 500
        /\ points[owner[b]] >= 1
        /\ NoActiveConfig
        /\ api_configs # <<>>

\* the step is the commit of a ledger debit or credit on account u
LedgerCommit(u) ==
    \/ \E b \in Batches : owner[b] = u /\ pc[b] = "deduct" /\ pc'[b] = "mark"
    \/ \E c \in Callers :
          cuser[c] = u /\ cpc[c] \in {"redeem", "add"} /\ cpc'[c] = "done"

\* C13: whatever the operations (generate_image, redeem_code, add_points,
\* deduct_points, the administrator's user update, PUT /users/me), the
\* balance of an account is a non-negative integer and changes only in the
\* commit of a ledger debit or credit.
C13_BalanceOnlyByLedger ==
    [][\A u \in Users :
          /\ ~points_null'[u]
          /\ points'[u] >= 0
          /\ (points'[u] # points[u] \/ points_null'[u] # points_null[u])
                 => LedgerCommit(u)]_vars

\* the amount generate_image asks deduct_points for
Amount(b) == IF request[b].enable_optimization THEN 2 ELSE 1

\* the step in which deduct_points, called for b, reads and checks the balance
DeductChecked(b) ==
    /\ pc[b] = "settle"
    /\ pc'[b] # "settle"
    /\ \E i \in DOMAIN generations[b] : generations[b][i].status = "completed"

\* C14: deduct_points fails with "Insufficient points" and leaves the balance
\* as it is when the balance it reads is below the amount; otherwise it
\* commits that balance minus the whole amount, which takes exactly the amount
\* off the stored balance when no other commit came in between.
C14_DebitExactOrRejected ==
    [][\A b \in Batches :
          /\ DeductChecked(b) =>
                IF points[owner[b]] < Amount(b)
                THEN /\ pc'[b] = "return"
                     /\ points' = points
                     /\ debit_calls' = debit_calls
                     /\ \A i \in DOMAIN generations'[b] :
                           generations'[b][i].error_message = InsufficientText
                ELSE /\ pc'[b] = "deduct"
                     /\ points' = points
                     /\ user_points'[b] = points[owner[b]]
          /\ (pc[b] = "deduct" /\ pc'[b] # "deduct") =>
                /\ user_points[b] >= Amount(b)
                /\ points'[owner[b]] = user_points[b] - Amount(b)
                /\ charged'[b] = charged[b] + Amount(b)
                /\ points[owner[b]] = user_points[b]
                       => points'[owner[b]] = points[owner[b]] - Amount(b)]_vars

\* C14 witness: of two calls on one account, one was debited 2 and the other
\* had its debit rejected.
C14_OneDebitedOneRejected ==
    \E b1, b2 \in Batches :
        /\ pc[b1] = "returned" /\ charged[b1] = 2
        /\ pc[b2] = "returned" /\ debit_calls[b2] = 0
        /\ \E i \in DOMAIN generations[b2] :
              /\ generations[b2][i].error_message = InsufficientText
              /\ generations[b2][i].image_url # Null

\* the step in which add_points, called by c, commits
AddCommitted(c) == cpc[c] = "add" /\ cpc'[c] = "done"

\* C15: add_points rejects a negative amount and leaves the balance as it
\* is (it commits no balance for one); with an amount of 0 or more it adds
\* exactly the amount.
C15_NegativeCreditRejected ==
    [][\A c \in Callers :
          AddCommitted(c)
              => /\ camount[c] >= 0
                 /\ points'[cuser[c]] = cread[c] + camount[c]]_vars

\* every requested model of b has its record
AllCreated(b) ==
    /\ request[b].models # <<>>
    /\ Len(generations[b]) = Len(request[b].models)

\* every provider call of b has been issued and has resolved
AllResolved(b) ==
    /\ AllCreated(b)
    /\ Len(provider_calls[b]) = Len(request[b].models)
    /\ \A i \in DOMAIN generations[b] : generations[b][i].status # "processing"

\* the settlement of b is over: the debit, if there is one, is committed and
\* every record carries its final points_used
SettlementFinished(b) ==
    /\ AllResolved(b)
    /\ debit_calls[b] = 1
           <=> \E i \in DOMAIN generations[b] : generations[b][i].status = "completed"
    /\ \A i \in DOMAIN generations[b] :
          generations[b][i].points_used =
              IF generations[b][i].status = "completed" THEN Amount(b) ELSE 0

\* the step belongs to the settlement of b: the count and the check, the
\* debit, or the writing of points_used
SettlementStep(b) ==
    \/ pc[b] = "settle" /\ pc'[b] # "settle"
    \/ debit_calls'[b] # debit_calls[b]
    \/ \E i \in DOMAIN generations[b] :
          generations'[b][i].points_used # generations[b][i].points_used

\* C16: within one call, a provider call is issued only when all N records
\* exist, a step of the settlement is taken only when all N provider calls
\* have resolved, the records are returned only when the settlement is over,
\* and nothing of the call changes after the return.
C16_PhasesInOrder ==
    [][\A b \in Batches :
          /\ Len(provider_calls'[b]) > Len(provider_calls[b]) => AllCreated(b)
          /\ SettlementStep(b) => AllResolved(b)
          /\ (response[b].status # 200 /\ response'[b].status = 200)
                 => /\ SettlementFinished(b)
                    /\ response'[b].records = generations[b]
          /\ response[b].status = 200
                 => /\ generations'[b] = generations[b]
                    /\ debit_calls'[b] = debit_calls[b]
                    /\ response'[b] = response[b]]_vars

\* C16 witness: a call for two models has returned after a debit, the first
\* record completed and charged, the second failed and free.
C16_SettledThenReturned ==
    \E b \in Batches :
        /\ response[b].status = 200
        /\ Len(provider_calls[b]) = 2
        /\ debit_calls[b] = 1
        /\ response[b].records[1].status = "completed"
        /\ response[b].records[1].points_used = Amount(b)
        /\ response[b].records[2].status = "failed"
        /\ response[b].records[2].points_used = 0

\* the step in which the provider call for record i of b resolves
CallResolved(b, i) ==
    /\ Len(provider_calls[b]) = i - 1
    /\ Len(provider_calls'[b]) = i

\* the dicts _call_ai_api can return
CallResults == {CallAiApi(resp) : resp \in ProviderResponses}

\* what record i of b can become through its own provider call, whatever
\* became of the other records
OwnOutcomes(b, i) ==
    {Resolved(NewGeneration(owner[b], request[b], optimized_prompt[b],
                            request[b].models[i]),
              image_result) : image_result \in CallResults}

\* C17: the provider call of one model fails (non-200, no image data, an
\* exception or a timeout) or succeeds without touching the other records:
\* the step changes that record alone, the record fails exactly when its own
\* call failed, its outcome is one its own response determines, the next
\* model's call is issued all the same with the same prompt, and after the
\* last call the settlement runs to its end.
C17_FailureIsolated ==
    [][\A b \in Batches : \A i \in DOMAIN generations[b] :
          /\ CallResolved(b, i) =>
                /\ \A k \in DOMAIN generations[b] \ {i} :
                      generations'[b][k] = generations[b][k]
                /\ generations'[b][i].status = "failed"
                       <=> ~provider_calls'[b][i].success
                /\ generations'[b][i] \in OwnOutcomes(b, i)
                /\ provider_calls'[b][i].model = request[b].models[i]
                /\ provider_calls'[b][i].prompt = optimized_prompt[b]
                /\ pc'[b] = IF i = Len(request[b].models) THEN "settle" ELSE "call"
          /\ pc'[b] \in {"return", "returned"} => SettlementFinished(b)']_vars

\* C17 witness: a call for two models returned after its first provider call
\* raised; the second record is completed and the batch was debited.
C17_SiblingCompletedAfterFailure ==
    \E b \in Batches :
        /\ pc[b] = "returned"
        /\ Len(provider_calls[b]) = 2
        /\ generations[b][1].status = "failed"
        /\ generations[b][1].error_message = "API call error"
        /\ generations[b][2].status = "completed"
        /\ debit_calls[b] = 1

\* C18: a completed record has exactly one of image_url and base64_image
\* populated, and has its completion timestamp.
C18_CompletedHasOneOutput ==
    \A b \in Batches : \A i \in DOMAIN generations[b] :
        generations[b][i].status = "completed"
            => /\ (generations[b][i].image_url # Null)
                      # (generations[b][i].base64_image # Null)
               /\ generations[b][i].completed_at # Null

\* C19: a record returned as failed has a non-empty error message and both
\* output fields empty.
C19_FailedHasErrorNoOutput ==
    \A b \in Batches : \A i \in DOMAIN response[b].records :
        response[b].records[i].status = "failed"
            => /\ Truthy(response[b].records[i].error_message)
               /\ response[b].records[i].image_url = Null
               /\ response[b].records[i].base64_image = Null

\* does b have a completed record
HasCompleted(b) ==
    \E i \in DOMAIN generations[b] : generations[b][i].status = "completed"

\* C20: when the account's balance covers the charge of one of two calls but
\* not of both, the two calls never both end debited nor both with completed
\* records: if both had a successful provider call, one is debited and the
\* other is turned down for insufficient balance.
C20_OnlyOneSettles ==
    \A b1, b2 \in Batches :
        (/\ b1 # b2
         /\ pc[b1] = "returned" /\ pc[b2] = "returned"
         /\ owner[b1] = owner[b2]
         /\ initial_points[owner[b1]] >= Amount(b1)
         /\ initial_points[owner[b1]] >= Amount(b2)
         /\ initial_points[owner[b1]] < Amount(b1) + Amount(b2))
            => /\ ~(debit_calls[b1] = 1 /\ debit_calls[b2] = 1)
               /\ ~(HasCompleted(b1) /\ HasCompleted(b2))
               /\ (SomeCallSucceeded(b1) /\ SomeCallSucceeded(b2))
                      => \E b \in {b1, b2} :
                            /\ debit_calls[b] = 0
                            /\ \A i \in DOMAIN generations[b] :
                                  generations[b][i].error_message = InsufficientText

\* C21: whatever the administrator creates, updates and deletes, at most one
\* row of api_configs is active.
C21_AtMostOneActive ==
    Cardinality({i \in DOMAIN api_configs : api_configs[i].is_active}) <= 1

\* the rows the step removed
Removed == DOMAIN generation_rows \ DOMAIN generation_rows'

\* C22: a delete_generations or clear_user_generations call of user U removes
\* rows of U only: of the requested ids (of all ids, for clear) exactly those
\* that U owns; every other row stays as it is, also when its id was
\* requested; and the call returns true exactly when it removed a row.
C22_RemovesOwnRowsOnly ==
    [][(Removed # {} \/ removal' # removal) =>
          LET U == removal'.caller
              asked == IF removal'.kind = "clear" THEN RowIds ELSE removal'.ids
          IN  /\ Removed = {id \in DOMAIN generation_rows :
                               id \in asked /\ generation_rows[id] = U}
              /\ \A id \in DOMAIN generation_rows \ Removed :
                    /\ id \in DOMAIN generation_rows'
                    /\ generation_rows'[id] = generation_rows[id]
              /\ DOMAIN generation_rows' \subseteq DOMAIN generation_rows
              /\ removal'.result <=> Removed # {}]_vars

\* C22 witness: u1 asked to delete rows 1 and 2, of which row 2 belongs to u2;
\* the call returned true and row 2 is still there.
C22_ForeignRowKept ==
    /\ removal = [caller |-> "u1", kind |-> "delete", ids |-> {1, 2},
                  result |-> TRUE]
    /\ 1 \notin DOMAIN generation_rows
    /\ 2 \in DOMAIN generation_rows
    /\ generation_rows[2] = "u2"

\* the step in which an exception leaves the settlement of b and the handler
\* of lines 166-172 runs: a call succeeded, so deduct_points was called, and
\* the batch goes to its return without a debit
Aborted(b) ==
    /\ pc[b] = "settle"
    /\ pc'[b] = "return"
    /\ SomeCallSucceeded(b)

\* C23: when an error aborts the batch before its settlement completes, only
\* the records still processing are marked failed with the error text: a
\* record already completed or failed keeps its status; no record is left
\* processing and the account is not charged.
C23_OnlyProcessingMarkedFailed ==
    [][\A b \in Batches :
          Aborted(b) =>
              /\ \A i \in DOMAIN generations[b] :
                    /\ generations[b][i].status \in {"completed", "failed"}
                          => generations'[b][i].status = generations[b][i].status
                    /\ generations'[b][i].status # "processing"
              /\ charged'[b] = 0
              /\ points' = points]_vars

\* are all K records of b in gens, failed and free of charge
AllFailedUncharged(b, gens) ==
    /\ Len(gens) = Len(request[b].models)
    /\ \A i \in DOMAIN gens :
          gens[i].status = "failed" /\ gens[i].points_used = 0

\* C24: when deduct_points rejects the settlement debit of a batch with a
\* successful call, the balance stays as it is, every one of the K records is
\* failed with points_used = 0, and the call then returns normally with
\* exactly these K records.
C24_RejectedDebitFailsAll ==
    [][\A b \in Batches :
          /\ Aborted(b) =>
                /\ points' = points
                /\ charged'[b] = 0
                /\ AllFailedUncharged(b, generations'[b])
          /\ (pc[b] = "return" /\ pc'[b] = "returned"
                  /\ SomeCallSucceeded(b) /\ debit_calls[b] = 0) =>
                /\ response'[b].status = 200
                /\ AllFailedUncharged(b, response'[b].records)
                /\ charged'[b] = 0]_vars

\* C24 witness: a batch with optimization on a balance of 1 whose provider
\* call succeeded has returned its record failed, and the balance is still 1.
C24_ReturnedAfterRejectedDebit ==
    \E b \in Batches :
        /\ pc[b] = "returned"
        /\ request[b].enable_optimization
        /\ SomeCallSucceeded(b)
        /\ debit_calls[b] = 0
        /\ points[owner[b]] = 1
        /\ initial_points[owner[b]] = 1
        /\ response[b].records # <<>>
        /\ \A i \in DOMAIN response[b].records :
              response[b].records[i].status = "failed"

\* the fields in the order of their priority, and the key each is returned
\* under
Priority == <<"b64_json", "url", "image_url">>

ResultKey(f) == IF f = "b64_json" THEN "b64_json" ELSE "url"

\* the fields of Priority the first item of data carries, as indexes
Present(data) == {k \in DOMAIN Priority : Priority[k] \in DOMAIN data[1]}

\* C25: the extraction looks at the first data item only and returns the
\* field of highest priority that is present in it (b64_json, then url, then
\* image_url), whatever other fields are present; with empty data or an item
\* with none of the three fields it fails.
C25_HighestPriorityFieldWins ==
    extraction.state = "extracted" =>
        LET data == extraction.data
        IN  IF data = <<>> \/ Present(data) = {}
            THEN extraction.image_data = NoDict
            ELSE LET k == CHOOSE k \in Present(data) :
                              \A other \in Present(data) : k <= other
                     f == Priority[k]
                 IN  extraction.image_data
                         = [key \in {ResultKey(f)} |-> data[1][f]]

\* C25 witness: an item with all three fields has given its b64_json value.
C25_AllThreePresent ==
    /\ extraction.state = "extracted"
    /\ extraction.data # <<>>
    /\ DOMAIN extraction.data[1] = ImageFields
    /\ extraction.data[1]["b64_json"] = "B64"
    /\ extraction.image_data = [b64_json |-> "B64"]

\* the text in the optimizer's answer; "" when it was not asked or gave none
ReturnedText(resp) ==
    IF resp.kind = "http" /\ resp.status_code = 200 /\ resp.choices # <<>>
    THEN IF resp.choices[1] = Null THEN "" ELSE resp.choices[1]
    ELSE ""

\* all records of b carry the request's prompt and the same optimized_prompt
SamePrompts(b) ==
    \A i \in DOMAIN generations[b] :
        /\ generations[b][i].prompt = request[b].prompt
        /\ generations[b][i].optimized_prompt = generations[b][1].optimized_prompt

\* C26 as stated: all records of a batch carry the same prompt and the same
\* optimized_prompt, which is non-null exactly when the optimizer was invoked
\* and returned non-empty text different from the original prompt.
C26_OptimizedIffTextDiffers ==
    \A b \in Batches :
        /\ SamePrompts(b)
        /\ \A i \in DOMAIN generations[b] :
              generations[b][i].optimized_prompt # Null
                  <=> /\ optimizer_answer[b] # NoAnswer
                      /\ ReturnedText(optimizer_answer[b]) # ""
                      /\ ReturnedText(optimizer_answer[b]) # request[b].prompt

\* C26 amended: all records of a batch carry the same prompt and the same
\* optimized_prompt, which is the optimizer's text with the surrounding
\* whitespace stripped when the optimizer was invoked and that stripped text
\* is non-empty and different from the original prompt, and null otherwise.
C26_OptimizedIffStrippedTextDiffers ==
    \A b \in Batches :
        /\ SamePrompts(b)
        /\ \A i \in DOMAIN generations[b] :
              LET text == Strip(ReturnedText(optimizer_answer[b]))
              IN  generations[b][i].optimized_prompt
                      = IF /\ optimizer_answer[b] # NoAnswer
                           /\ text # ""
                           /\ text # request[b].prompt
                        THEN text
                        ELSE Null

\* C26 witness: the optimizer turned "cat" into "dog" and both records of the
\* batch carry "cat" and "dog".
C26_BothRecordsOptimized ==
    \E b \in Batches :
        /\ Len(generations[b]) = 2
        /\ optimizer_answer[b].choices = <<"dog">>
        /\ \A i \in {1, 2} :
              /\ generations[b][i].prompt = "cat"
              /\ generations[b][i].optimized_prompt = "dog"

\* the value a setting resolves to: the request's when it has one, else the
\* active configuration's
Resolve(requested, configured) ==
    IF requested \notin {Null, ""} THEN requested ELSE configured

\* enable_optimization is set and both settings resolve to non-empty values
OptimizationResolved(req, cfg) ==
    /\ req.enable_optimization
    /\ Resolve(req.optimizer_model, cfg.optimizer_model) \notin {Null, ""}
    /\ Resolve(req.system_prompt, cfg.system_prompt) \notin {Null, ""}

\* the step in which generate_image passes its preconditions
Accepted(b) == pc[b] = "idle" /\ pc'[b] \in {"optimize", "create"}

\* the optimizer's request goes out at most once and before any record exists
InvokedOnceBeforeRecords(b) ==
    /\ (pc'[b] = "optimize" /\ pc[b] # "optimize")
          => pc[b] = "idle" /\ optimizer_answer[b] = NoAnswer
    /\ pc[b] = "optimize" => generations[b] = <<>> /\ generations'[b] = <<>>
    /\ optimizer_answer'[b] # optimizer_answer[b]
          => pc[b] = "optimize" /\ pc'[b] = "create"
    /\ (pc[b] # "idle" /\ pc[b] # "optimize") => pc'[b] # "optimize"

\* C27 as stated: within one submit the optimizer is invoked at most once,
\* before any record is created, and exactly when enable_optimization is set
\* and both the optimizer model and the system prompt resolve to non-empty
\* values, the request's value taking precedence over the configuration's.
C27_InvokedIffResolved ==
    [][\A b \in {"b1"} :
          /\ InvokedOnceBeforeRecords(b)
          /\ Accepted(b) =>
                (pc'[b] = "optimize"
                    <=> OptimizationResolved(request'[b],
                                             GetActiveApiConfig(api_configs)[1]))]_vars

\* C27 amended: as above, and the optimizer is invoked only if an API key is
\* there as well, the active configuration's or the service's default.
C27_InvokedIffResolvedWithKey ==
    [][\A b \in {"b1"} :
          /\ InvokedOnceBeforeRecords(b)
          /\ Accepted(b) =>
                (pc'[b] = "optimize"
                    <=> /\ OptimizationResolved(request'[b],
                                                GetActiveApiConfig(api_configs)[1])
                        /\ Resolve(GetActiveApiConfig(api_configs)[1].api_key,
                                   default_api_key) # "")]_vars

\* C27 witness: the configuration has no system prompt, the request brings
\* one, and the optimizer has been asked and has answered before the records
\* were created.
C27_RequestOverrideInvokes ==
    /\ pc["b1"] = "call"
    /\ request["b1"].system_prompt = "req-sys"
    /\ GetActiveApiConfig(api_configs)[1].system_prompt = Null
    /\ optimizer_answer["b1"] # NoAnswer
    /\ generations["b1"] # <<>>

\* the redeem_code calls that returned success
Redeemed == {c \in Callers : cpc[c] = "done"}

\* C28: whatever the interleaving of redeem_code calls on one code, at most
\* one of them succeeds and the points credited for the code, over all calls,
\* are at most the code's points; once a call has succeeded, exactly one has
\* and the points credited are the code's.
C28_CodeCreditsOnce ==
    /\ Cardinality(Redeemed) <= 1
    /\ SumOver(Callers, credited) <= code_points
    /\ code_used => /\ Cardinality(Redeemed) = 1
                    /\ SumOver(Callers, credited) = code_points

\* the step is a call of PUT /users/me: no generate_image call and no ledger
\* caller moves
SelfUpdateStep == batchVars' = batchVars /\ callerVars' = callerVars

\* C29: PUT /users/me leaves the caller's balance as it was, whatever the
\* request body.
C29_SelfUpdateKeepsBalance ==
    [][SelfUpdateStep => points' = points /\ points_null' = points_null]_vars

\* the users registered with this invite code (Null: with none)
RegisteredWith(code) == {row \in user_rows : row.invite_code = code}

\* C30: whatever the interleaving of create_user calls, an invite code has
\* registered at most one user, an expired code has registered none, and at
\* most one user was created without an invite code.
C30_InviteCodeGatesRegistration ==
    /\ \A code \in DOMAIN invite_codes :
          /\ Cardinality(RegisteredWith(code)) <= 1
          /\ invite_codes[code].expired => RegisteredWith(code) = {}
    /\ Cardinality(RegisteredWith(Null)) <= 1

====
